---- MODULE Spec2Model ----
(***************************************************************************)
(* Model of the unstable-blocks tooling of dfinity/bitcoin-canister:        *)
(*   unstable_blocks.py                parse_blob, parse_vec_block_data     *)
(*   visualize_blockchain_graphviz.py  difficulty_to_color, generate_graph  *)
(*   visualize_blockchain.py           build_graph                          *)
(*                                                                         *)
(* A text is a sequence of lexemes.  Every lexeme is one character, except  *)
(* the keywords of the Candid dump, which are kept whole (Chars gives their *)
(* characters back where the code looks at single characters).  A hex      *)
(* string is the sequence of its characters.                                *)
(***************************************************************************)
EXTENDS Integers, Sequences, FiniteSets, TLC

VARIABLES text, frags, pc, blocks, dot, G, blob_str, blob_out

vars == <<text, frags, pc, blocks, dot, G, blob_str, blob_out>>

(***************************************************************************)
(* Bounds of the model.                                                     *)
(***************************************************************************)
MaxFragments == 2
MaxBlocks == 3
MaxBlobLen == 4

(***************************************************************************)
(* Lexemes and character classes of the regular expressions.                *)
(***************************************************************************)
\* The characters of a lexeme: the keywords are the only lexemes of more than
\* one character.
Chars(t) ==
  CASE t = "record" -> <<"r", "e", "c", "o", "r", "d">>
    [] t = "height" -> <<"h", "e", "i", "g", "h", "t">>
    [] t = "block_hash" -> <<"b", "l", "o", "c", "k", "_", "h", "a", "s", "h">>
    [] t = "difficulty" -> <<"d", "i", "f", "f", "i", "c", "u", "l", "t", "y">>
    [] t = "children" -> <<"c", "h", "i", "l", "d", "r", "e", "n">>
    [] t = "no_difficulty_counter" ->
         <<"n", "o", "_", "d", "i", "f", "f", "i", "c", "u", "l", "t", "y",
           "_", "c", "o", "u", "n", "t", "e", "r">>
    [] t = "prev_block_hash" ->
         <<"p", "r", "e", "v", "_", "b", "l", "o", "c", "k", "_", "h", "a", "s", "h">>
    [] t = "blob" -> <<"b", "l", "o", "b">>
    [] t = "vec" -> <<"v", "e", "c">>
    [] t = "nat" -> <<"n", "a", "t">>
    [] OTHER -> <<t>>

\* \s (the whitespace characters that are lexemes of the model)
Space == {" ", "\n", "\t"}

\* \d (the ASCII digits)
Digit == {"0", "1", "2", "3", "4", "5", "6", "7", "8", "9"}

\* [\d_]
DigitOrUnderscore == Digit \cup {"_"}

\* [0-9a-fA-F]
HexDigit ==
  Digit \cup {"a", "b", "c", "d", "e", "f", "A", "B", "C", "D", "E", "F"}

Min(S) == CHOOSE x \in S : \A y \in S : x <= y

Max(S) == CHOOSE x \in S : \A y \in S : x >= y

RECURSIVE Flatten(_)
Flatten(ts) ==
  IF ts = <<>> THEN <<>> ELSE Chars(Head(ts)) \o Flatten(Tail(ts))

RECURSIVE Concat(_)
Concat(ss) ==
  IF ss = <<>> THEN <<>> ELSE Head(ss) \o Concat(Tail(ss))

\* The regular-expression matcher.  A pattern is a sequence of elements:
\*   lit t      the lexeme t
\*   ws         \s*
\*   num        ([\d_]+)
\*   notq       ([^"]+)
\*   notbrace   ([^}]*)
\*   hex2       ([0-9a-fA-F]{2})
\* In every pattern of the source the class of a repetition excludes the
\* element that follows it, so the greedy run is the only way to match and
\* no backtracking is needed.
Lit(t) == [k |-> "lit", t |-> t]

Ws == [k |-> "ws", t |-> ""]

Num == [k |-> "num", t |-> ""]

NotQ == [k |-> "notq", t |-> ""]

NotBrace == [k |-> "notbrace", t |-> ""]

Hex2 == [k |-> "hex2", t |-> ""]

\* The end (exclusive) of the longest run of lexemes of class S from pos.
RECURSIVE RunIn(_, _, _)
RunIn(s, pos, S) ==
  IF pos <= Len(s) /\ s[pos] \in S THEN RunIn(s, pos + 1, S) ELSE pos

\* The end (exclusive) of the longest run of lexemes other than t from pos.
RunNot(s, pos, t) ==
  LET stop == {i \in pos..Len(s) : s[i] = t}
  IN  IF stop = {} THEN Len(s) + 1 ELSE Min(stop)

NoMatch == [ok |-> FALSE, end |-> 0, caps |-> <<>>]

RECURSIVE MatchFrom(_, _, _, _, _)
MatchFrom(pat, k, s, pos, caps) ==
  IF k > Len(pat)
  THEN [ok |-> TRUE, end |-> pos, caps |-> caps]
  ELSE
    LET e == pat[k] IN
    CASE e.k = "lit" ->
           IF pos <= Len(s) /\ s[pos] = e.t
           THEN MatchFrom(pat, k + 1, s, pos + 1, caps)
           ELSE NoMatch
      [] e.k = "ws" -> MatchFrom(pat, k + 1, s, RunIn(s, pos, Space), caps)
      [] e.k = "num" ->
           LET q == RunIn(s, pos, DigitOrUnderscore) IN
           IF q = pos
           THEN NoMatch
           ELSE MatchFrom(pat, k + 1, s, q, Append(caps, SubSeq(s, pos, q - 1)))
      [] e.k = "notq" ->
           LET q == RunNot(s, pos, "\"") IN
           IF q = pos
           THEN NoMatch
           ELSE MatchFrom(pat, k + 1, s, q, Append(caps, SubSeq(s, pos, q - 1)))
      [] e.k = "notbrace" ->
           LET q == RunNot(s, pos, "}") IN
           MatchFrom(pat, k + 1, s, q, Append(caps, SubSeq(s, pos, q - 1)))
      [] e.k = "hex2" ->
           IF pos + 1 <= Len(s) /\ s[pos] \in HexDigit /\ s[pos + 1] \in HexDigit
           THEN MatchFrom(pat, k + 1, s, pos + 2, Append(caps, SubSeq(s, pos, pos + 1)))
           ELSE NoMatch

\* re.finditer / re.findall: the non-overlapping matches, leftmost first; each
\* match is the sequence of its groups.  Every pattern of the source begins
\* with a literal, so a match can only begin where that lexeme stands: the
\* scan goes from one such position to the next.
RECURSIVE FindIter(_, _, _)
FindIter(pat, s, pos) ==
  LET starts == {i \in pos..Len(s) : s[i] = pat[1].t} IN
  IF starts = {}
  THEN <<>>
  ELSE
    LET start == Min(starts)
        m == MatchFrom(pat, 1, s, start, <<>>)
    IN  IF m.ok
        THEN <<m.caps>> \o FindIter(pat, s, m.end)
        ELSE FindIter(pat, s, start + 1)

(***************************************************************************)
(* unstable_blocks.py                                                       *)
(***************************************************************************)
\* r'\\([0-9a-fA-F]{2})'
blob_pattern == <<Lit("\\"), Hex2>>

\* parse_blob over the characters of the literal: the matches, joined.
parse_blob(chars) ==
  LET matches == FindIter(blob_pattern, chars, 1)
  IN  Concat([i \in 1..Len(matches) |-> matches[i][1]])

KwField(name) == <<Lit(name), Ws, Lit("="), Ws>>

NatField(name) == KwField(name) \o <<Num, Ws, Lit(":"), Ws, Lit("nat"), Lit(";"), Ws>>

BlobField(name) ==
  KwField(name) \o <<Lit("blob"), Ws, Lit("\""), NotQ, Lit("\""), Lit(";"), Ws>>

block_pattern ==
  <<Lit("record"), Ws, Lit("{"), Ws>>
    \o NatField("height")
    \o BlobField("block_hash")
    \o NatField("difficulty")
    \o KwField("children")
    \o <<Lit("vec"), Ws, Lit("{"), NotBrace, Lit("}"), Lit(";"), Ws>>
    \o NatField("no_difficulty_counter")
    \o BlobField("prev_block_hash")
    \o <<Lit("}")>>

\* r'blob\s*"([^"]+)"'
child_pattern == <<Lit("blob"), Ws, Lit("\""), NotQ, Lit("\"")>>

\* group.replace("_", "")
StripUnderscores(lit) == SelectSeq(lit, LAMBDA c : c # "_")

DigitVal(c) ==
  CASE c = "0" -> 0 [] c = "1" -> 1 [] c = "2" -> 2 [] c = "3" -> 3
    [] c = "4" -> 4 [] c = "5" -> 5 [] c = "6" -> 6 [] c = "7" -> 7
    [] c = "8" -> 8 [] c = "9" -> 9

RECURSIVE DecimalValue(_)
DecimalValue(ds) ==
  IF ds = <<>>
  THEN 0
  ELSE 10 * DecimalValue(SubSeq(ds, 1, Len(ds) - 1)) + DigitVal(ds[Len(ds)])

\* int("") raises ValueError.
IntRaises(lit) == StripUnderscores(lit) = <<>>

IntOf(lit) == DecimalValue(StripUnderscores(lit))

\* The body of the loop of parse_vec_block_data for one match.
BlockOfMatch(m) ==
  LET children_blobs == FindIter(child_pattern, m[4], 1) IN
  [height |-> IntOf(m[1]),
   difficulty |-> IntOf(m[3]),
   no_difficulty_counter |-> IntOf(m[5]),
   prev_block_hash |-> parse_blob(Flatten(m[6])),
   block_hash |-> parse_blob(Flatten(m[2])),
   children |-> [i \in 1..Len(children_blobs) |->
                   parse_blob(Flatten(children_blobs[i][1]))]]

\* parse_vec_block_data: the list under "data", or the ValueError of int().
parse_vec_block_data(t) ==
  LET ms == FindIter(block_pattern, t, 1) IN
  IF \E i \in 1..Len(ms) : IntRaises(ms[i][1]) \/ IntRaises(ms[i][3]) \/ IntRaises(ms[i][5])
  THEN [status |-> "ValueError", data |-> <<>>]
  ELSE [status |-> "ok", data |-> [i \in 1..Len(ms) |-> BlockOfMatch(ms[i])]]

(***************************************************************************)
(* visualize_blockchain_graphviz.py                                         *)
(***************************************************************************)
short_hash(hash_hex) == SubSeq(hash_hex, 1, IF Len(hash_hex) < 6 THEN Len(hash_hex) ELSE 6)

HexChars == <<"0", "1", "2", "3", "4", "5", "6", "7", "8", "9", "a", "b", "c", "d", "e", "f">>

\* f"{n:02x}" for 0 <= n < 256
Format02x(n) == HexChars[(n \div 16) + 1] \o HexChars[(n % 16) + 1]

\* A faulty variant of Ratio: 1.0 instead of 0.0 when the range is empty.
RatioDegenerateOne(difficulty, min_difficulty, max_difficulty) ==
  IF max_difficulty = min_difficulty
  THEN <<1, 1>>
  ELSE <<difficulty - min_difficulty, max_difficulty - min_difficulty>>

\* The ratio of difficulty_to_color as the fraction <<numerator, denominator>>;
\* 0.0 when max_difficulty = min_difficulty.
Ratio(difficulty, min_difficulty, max_difficulty) ==
  IF max_difficulty = min_difficulty
  THEN <<0, 1>>
  ELSE <<difficulty - min_difficulty, max_difficulty - min_difficulty>>

\* int(low + ratio * (high - low)): the value is never negative, so the
\* truncation of int() is the floor.
Channel(low, high, ratio) == (low * ratio[2] + ratio[1] * (high - low)) \div ratio[2]

difficulty_to_color(difficulty, min_difficulty, max_difficulty) ==
  LET ratio == Ratio(difficulty, min_difficulty, max_difficulty)
      r == Channel(232, 0, ratio)
      g == Channel(240, 60, ratio)
      b == Channel(254, 143, ratio)
  IN  "#" \o Format02x(r) \o Format02x(g) \o Format02x(b)

padding_top == <<"padding_top">>

padding_bottom == <<"padding_bottom">>

PaddingNode(id) ==
  [id |-> id, label |-> <<>>, shape |-> "box", style |-> "invis", fillcolor |-> ""]

Edge(tail, head, style) == [tail |-> tail, head |-> head, style |-> style]

\* {b["block_hash"]: b for b in blocks}: a later record replaces an earlier one.
hash_to_block(bs) ==
  [h \in {bs[i].block_hash : i \in DOMAIN bs} |->
     bs[Max({i \in DOMAIN bs : bs[i].block_hash = h})]]

\* The first loop of generate_graph: one dot.node per record.
GvNode(block, min_diff, max_diff) ==
  [id |-> block.block_hash,
   label |-> <<"#", short_hash(block.block_hash), "\\nH:", block.height,
               "\\nD:", block.difficulty, "\\nC:", block.no_difficulty_counter>>,
   shape |-> "box",
   style |-> "filled",
   fillcolor |-> difficulty_to_color(block.difficulty, min_diff, max_diff)]

\* A faulty variant of GvChildEdges: no test that the child is a key.
GvChildEdgesUnchecked(block, h2b) ==
  [i \in 1..Len(block.children) |-> Edge(block.block_hash, block.children[i], "")]

\* A faulty variant of GvChildEdges: the edge runs from the child to the parent.
GvChildEdgesReversed(block, h2b) ==
  LET kept == SelectSeq(block.children, LAMBDA child : child \in DOMAIN h2b)
  IN  [i \in 1..Len(kept) |-> Edge(kept[i], block.block_hash, "")]

\* The second loop of generate_graph for one record: dot.edge per child that is
\* a key of hash_to_block.
GvChildEdges(block, h2b) ==
  LET kept == SelectSeq(block.children, LAMBDA child : child \in DOMAIN h2b)
  IN  [i \in 1..Len(kept) |-> Edge(block.block_hash, kept[i], "")]

\* A faulty variant of GvPaddingEdges: both edges at the first record.
GvPaddingEdgesAtFirst(bs) ==
  <<Edge(padding_top, bs[1].block_hash, "invis"),
    Edge(bs[1].block_hash, padding_bottom, "invis")>>

\* A faulty variant of GvPaddingEdges: first and last record exchanged.
GvPaddingEdgesSwapped(bs) ==
  <<Edge(padding_top, bs[Len(bs)].block_hash, "invis"),
    Edge(bs[1].block_hash, padding_bottom, "invis")>>

\* The two invisible edges that end generate_graph.
GvPaddingEdges(bs) ==
  <<Edge(padding_top, bs[1].block_hash, "invis"),
    Edge(bs[Len(bs)].block_hash, padding_bottom, "invis")>>

NoDot == [status |-> "none", nodes |-> <<>>, edges |-> <<>>]

\* generate_graph up to dot.render: the node and edge statements of the Digraph,
\* or the ValueError of min() on an empty list, raised after the two padding
\* nodes were added.
generate_graph(bs) ==
  LET padding == <<PaddingNode(padding_top), PaddingNode(padding_bottom)>> IN
  IF bs = <<>>
  THEN [status |-> "ValueError", nodes |-> padding, edges |-> <<>>]
  ELSE
    LET difficulties == {bs[i].difficulty : i \in DOMAIN bs}
        min_diff == Min(difficulties)
        max_diff == Max(difficulties)
        h2b == hash_to_block(bs)
    IN  [status |-> "ok",
         nodes |-> padding \o [i \in 1..Len(bs) |-> GvNode(bs[i], min_diff, max_diff)],
         edges |-> Concat([i \in 1..Len(bs) |-> GvChildEdges(bs[i], h2b)])
                     \o GvPaddingEdges(bs)]

(***************************************************************************)
(* visualize_blockchain.py                                                  *)
(***************************************************************************)
NoAttr == <<>>

NoG == [status |-> "none", nodes |-> <<>>, edges |-> {}]

\* nx.DiGraph.add_node: the attributes of an existing node are updated.
AddNode(g, n, label) == [g EXCEPT !.nodes = (n :> label) @@ g.nodes]

\* nx.DiGraph.add_edge: an endpoint that is no node yet becomes one.
AddEdge(g, u, v) ==
  [g EXCEPT !.nodes = g.nodes @@ (u :> NoAttr) @@ (v :> NoAttr),
            !.edges = g.edges \cup {<<u, v>>}]

NxLabel(block) ==
  <<"H:", block.height, " D:", block.difficulty, " #", short_hash(block.block_hash)>>

RECURSIVE NxAddNodes(_, _, _)
NxAddNodes(g, bs, i) ==
  IF i > Len(bs)
  THEN g
  ELSE NxAddNodes(AddNode(g, bs[i].block_hash, NxLabel(bs[i])), bs, i + 1)

\* The children of one record that are keys of hash_to_block.
NxKeptChildren(block, h2b) ==
  SelectSeq(block.children, LAMBDA child_hash : child_hash \in DOMAIN h2b)

RECURSIVE NxAddChildEdges(_, _, _, _)
NxAddChildEdges(g, u, kept, j) ==
  IF j > Len(kept)
  THEN g
  ELSE NxAddChildEdges(AddEdge(g, u, kept[j]), u, kept, j + 1)

RECURSIVE NxAddEdges(_, _, _, _)
NxAddEdges(g, bs, h2b, i) ==
  IF i > Len(bs)
  THEN g
  ELSE NxAddEdges(NxAddChildEdges(g, bs[i].block_hash, NxKeptChildren(bs[i], h2b), 1),
                  bs, h2b, i + 1)

build_graph(bs) ==
  LET h2b == hash_to_block(bs)
      g0 == [status |-> "ok", nodes |-> <<>>, edges |-> {}]
  IN  NxAddEdges(NxAddNodes(g0, bs, 1), bs, h2b, 1)

(***************************************************************************)
(* The inputs: Candid texts built from fragments, and decoded record lists. *)
(***************************************************************************)
\* One escaped byte of a blob literal.
Esc(x, y) == <<"\\", x, y>>

\* Integer literals of the dump with the number each one writes.
NumLits == {[lit |-> <<"1">>, val |-> 1], [lit |-> <<"2", "_", "0">>, val |-> 20]}

\* Blob literals with the hex string each one writes.
BlobAA == [src |-> Esc("a", "a"), hex |-> <<"a", "a">>]

BlobBB == [src |-> Esc("b", "b"), hex |-> <<"b", "b">>]

BlobCC == [src |-> Esc("c", "c"), hex |-> <<"c", "c">>]

InputRecords ==
  [height : NumLits,
   block_hash : {BlobAA, BlobBB},
   children : {<<>>, <<BlobBB>>, <<BlobCC, BlobBB>>}]

NatFieldText(name, lit) ==
  <<name, " ", "=", " ">> \o lit \o <<" ", ":", " ", "nat", ";", " ">>

BlobLitText(src) == <<"blob", " ", "\"">> \o src \o <<"\"">>

BlobFieldText(name, src) == <<name, " ", "=", " ">> \o BlobLitText(src) \o <<";", " ">>

ChildrenText(cs) ==
  <<"children", " ", "=", " ", "vec", " ", "{">>
    \o Concat([i \in 1..Len(cs) |-> <<" ">> \o BlobLitText(cs[i].src) \o <<";">>])
    \o <<" ", "}", ";", " ">>

\* A record of the dump; counter tells whether it has the field
\* no_difficulty_counter (the newer schema) or not (the older one).
RecordText(height_lit, r, counter) ==
  <<"record", " ", "{", "\n">>
    \o NatFieldText("height", height_lit)
    \o BlobFieldText("block_hash", r.block_hash.src)
    \o NatFieldText("difficulty", <<"5">>)
    \o ChildrenText(r.children)
    \o (IF counter THEN NatFieldText("no_difficulty_counter", <<"0">>) ELSE <<>>)
    \o BlobFieldText("prev_block_hash", Esc("0", "0"))
    \o <<"}", ";", "\n">>

\* The record that RecordText(r.height.lit, r, TRUE) writes.
ExpectedBlock(r) ==
  [height |-> r.height.val,
   difficulty |-> 5,
   no_difficulty_counter |-> 0,
   prev_block_hash |-> <<"0", "0">>,
   block_hash |-> r.block_hash.hex,
   children |-> [i \in 1..Len(r.children) |-> r.children[i].hex]]

\* Fragments that are no record: a record of the newer schema cut off after a
\* brace, a quote or a colon, and a record whose height literal has no digit.
MalformedTexts(r) ==
  LET t == RecordText(r.height.lit, r, TRUE) IN
  {SubSeq(t, 1, i) : i \in {j \in 1..(Len(t) - 3) : t[j] \in {"{", "\"", ":"}}}
    \cup {RecordText(<<"_">>, r, TRUE)}

NoiseLexemes == {"x", "}", "\"", "record", "\n"}

\* The record lists handed to the two visualizers: three block hashes, so
\* that hashes repeat or not; heights and difficulties that differ or agree;
\* children that are records of the snapshot or not ("dd" never is), listed
\* once or twice.
Weights == {[height |-> 1, difficulty |-> 2], [height |-> 2, difficulty |-> 1]}

BlobDD == [src |-> Esc("d", "d"), hex |-> <<"d", "d">>]

ChildLists ==
  {<<>>, <<BlobAA.hex>>, <<BlobBB.hex, BlobDD.hex>>, <<BlobBB.hex, BlobBB.hex>>}

BlockSet ==
  {[height |-> w.height,
    difficulty |-> w.difficulty,
    no_difficulty_counter |-> 0,
    prev_block_hash |-> <<"0", "0">>,
    block_hash |-> h,
    children |-> c] :
     w \in Weights, h \in {BlobAA.hex, BlobBB.hex, BlobCC.hex}, c \in ChildLists}

BlockSeqs == UNION {[1..n -> BlockSet] : n \in 0..MaxBlocks}

BlobAlphabet == {"\\", "a", "A", "0", "g"}

BlobStrings == UNION {[1..n -> BlobAlphabet] : n \in 0..MaxBlobLen}

(***************************************************************************)
(* The state machine.                                                       *)
(*   text      the Candid text read by unstable_blocks.py                   *)
(*   frags     what the text was built from (history, not program state)    *)
(*   pc        "input", "decoded", "failed"; "blob", "blob_done"            *)
(*   blocks    the list under "data" of the JSON file                       *)
(*   dot       the Digraph of generate_graph                                *)
(*   G         the DiGraph of build_graph                                   *)
(*   blob_str, blob_out   argument and result of parse_blob                 *)
(***************************************************************************)
Init ==
  /\ text = <<>>
  /\ frags = <<>>
  /\ pc = "input"
  /\ blocks = <<>>
  /\ dot = NoDot
  /\ G = NoG
  /\ blob_str = <<>>
  /\ blob_out = <<>>

\* The text and its history, one fragment longer.
Appended(kind, t, block) ==
  /\ text' = text \o t
  /\ frags' = Append(frags, [kind |-> kind, block |-> block])

AppendRecord ==
  /\ pc = "input"
  /\ Len(frags) < MaxFragments
  /\ \E r \in InputRecords :
       Appended("new", RecordText(r.height.lit, r, TRUE), <<ExpectedBlock(r)>>)
  /\ UNCHANGED <<pc, blocks, dot, G, blob_str, blob_out>>

AppendOldRecord ==
  /\ pc = "input"
  /\ Len(frags) < MaxFragments
  /\ \E r \in InputRecords :
       Appended("old", RecordText(r.height.lit, r, FALSE), <<>>)
  /\ UNCHANGED <<pc, blocks, dot, G, blob_str, blob_out>>

AppendMalformed ==
  /\ pc = "input"
  /\ Len(frags) < MaxFragments
  /\ \E r \in InputRecords : \E t \in MalformedTexts(r) :
       Appended("malformed", t, <<>>)
  /\ UNCHANGED <<pc, blocks, dot, G, blob_str, blob_out>>

AppendNoise ==
  /\ pc = "input"
  /\ Len(frags) < MaxFragments
  /\ \E t \in NoiseLexemes : Appended("noise", <<t>>, <<>>)
  /\ UNCHANGED <<pc, blocks, dot, G, blob_str, blob_out>>

\* main of unstable_blocks.py, then load_blocks of the visualizers: the list
\* goes through json.dump and json.load, which give back the same integers,
\* strings and lists.  After a ValueError no JSON file is written.
Decode ==
  /\ pc = "input"
  /\ LET parsed == parse_vec_block_data(text) IN
       /\ pc' = IF parsed.status = "ok" THEN "decoded" ELSE "failed"
       /\ blocks' = parsed.data
  /\ UNCHANGED <<text, frags, dot, G, blob_str, blob_out>>

GenerateGraph ==
  /\ pc = "decoded"
  /\ dot.status = "none"
  /\ dot' = generate_graph(blocks)
  /\ UNCHANGED <<text, frags, pc, blocks, G, blob_str, blob_out>>

BuildGraph ==
  /\ pc = "decoded"
  /\ G.status = "none"
  /\ G' = build_graph(blocks)
  /\ UNCHANGED <<text, frags, pc, blocks, dot, blob_str, blob_out>>

ParseBlob ==
  /\ pc = "blob"
  /\ blob_out' = parse_blob(blob_str)
  /\ pc' = "blob_done"
  /\ UNCHANGED <<text, frags, blocks, dot, G, blob_str>>

Next ==
  \/ AppendRecord
  \/ AppendOldRecord
  \/ AppendMalformed
  \/ AppendNoise
  \/ Decode
  \/ GenerateGraph
  \/ BuildGraph

\* The whole pipeline: a text is assembled, decoded and visualized.
Spec == Init /\ [][Next]_vars

InitGraph ==
  /\ text = <<>>
  /\ frags = <<>>
  /\ pc = "decoded"
  /\ blocks \in BlockSeqs
  /\ dot = NoDot
  /\ G = NoG
  /\ blob_str = <<>>
  /\ blob_out = <<>>

NextGraph ==
  \/ GenerateGraph
  \/ BuildGraph

\* The visualizers on every record list of BlockSeqs.
SpecGraph == InitGraph /\ [][NextGraph]_vars

InitBlob ==
  /\ text = <<>>
  /\ frags = <<>>
  /\ pc = "blob"
  /\ blocks = <<>>
  /\ dot = NoDot
  /\ G = NoG
  /\ blob_str \in BlobStrings
  /\ blob_out = <<>>

NextBlob == ParseBlob

\* parse_blob on every string of BlobStrings.
SpecBlob == InitBlob /\ [][NextBlob]_vars

(***************************************************************************)
(* The claims.                                                              *)
(***************************************************************************)
Count(seq, x) == Cardinality({i \in DOMAIN seq : seq[i] = x})

\* The decoder has returned or raised.
DecoderDone == pc \in {"decoded", "failed"}

\* The records written by the well-formed fragments of the text, in order.
Expected == Concat([i \in 1..Len(frags) |-> frags[i].block])

Keys == {blocks[i].block_hash : i \in DOMAIN blocks}

\* The edge statements of the Digraph between real nodes.
GvRealEdges == SelectSeq(dot.edges, LAMBDA e : e.style # "invis")

\* C1: a text of N well-formed records of the older schema decodes to exactly
\* N records, none of which has the field no_difficulty_counter.
C1_OldSchemaDecoded ==
  (DecoderDone /\ \A i \in DOMAIN frags : frags[i].kind = "old") =>
    /\ pc = "decoded"
    /\ Len(blocks) = Len(frags)
    /\ \A i \in DOMAIN blocks : "no_difficulty_counter" \notin DOMAIN blocks[i]

\* C2: a text without any matching record decodes to the empty list, and
\* generate_graph then completes with no node, no padding node and no edge.
C2_EmptyInputEmptyRenderSpec ==
  (DecoderDone /\ \A i \in DOMAIN frags : frags[i].kind = "noise") =>
    /\ pc = "decoded"
    /\ blocks = <<>>
    /\ dot.status # "none" =>
         /\ dot.status = "ok"
         /\ dot.nodes = <<>>
         /\ dot.edges = <<>>

\* Some record lists a child hash that is the block hash of no record.
SomeDanglingChild ==
  \E i \in DOMAIN blocks : \E j \in DOMAIN blocks[i].children :
    blocks[i].children[j] \notin Keys

\* C3: every edge between real nodes has both ends among the block hashes of
\* the snapshot, no node exists for a child hash that is not one of them, and
\* a visualizer that meets such a child hash completes without error.
C3_NoDanglingEdges ==
  /\ (SomeDanglingChild /\ dot.status # "none") => dot.status = "ok"
  /\ (SomeDanglingChild /\ G.status # "none") => G.status = "ok"
  /\ dot.status = "ok" =>
       /\ \A i \in DOMAIN dot.edges :
            dot.edges[i].style # "invis" =>
              (dot.edges[i].tail \in Keys /\ dot.edges[i].head \in Keys)
       /\ \A i \in DOMAIN dot.nodes :
            dot.nodes[i].style # "invis" => dot.nodes[i].id \in Keys
  /\ G.status = "ok" =>
       /\ \A e \in G.edges : e[1] \in Keys /\ e[2] \in Keys
       /\ DOMAIN G.nodes = Keys

\* Both visualizers have run on a list with a child hash outside the snapshot
\* and with a child hash inside it.
C3_Witness ==
  /\ dot.status = "ok"
  /\ G.status = "ok"
  /\ SomeDanglingChild
  /\ GvRealEdges # <<>>
  /\ G.edges # {}

\* The lower-case hex digits of every \xy token of s, in source order.
Lower(c) ==
  CASE c = "A" -> "a" [] c = "B" -> "b" [] c = "C" -> "c"
    [] c = "D" -> "d" [] c = "E" -> "e" [] c = "F" -> "f"
    [] OTHER -> c

RECURSIVE LowerHexOfTokens(_, _)
LowerHexOfTokens(s, i) ==
  IF i > Len(s)
  THEN <<>>
  ELSE IF s[i] = "\\" /\ i + 2 <= Len(s) /\ s[i + 1] \in HexDigit /\ s[i + 2] \in HexDigit
       THEN <<Lower(s[i + 1]), Lower(s[i + 2])>> \o LowerHexOfTokens(s, i + 3)
       ELSE LowerHexOfTokens(s, i + 1)

\* C4: parse_blob returns, for every string, the hex digits of its \xy tokens
\* in source order as a lower-case hex string.
C4_BlobLowercaseHex ==
  pc = "blob_done" => blob_out = LowerHexOfTokens(blob_str, 1)

\* C5: the decoder returns exactly the records of the well-formed fragments,
\* in order; malformed fragments and noise add nothing, raise nothing and
\* hide no later record.
C5_ExactlyWellFormedRecords ==
  DecoderDone => (pc = "decoded" /\ blocks = Expected)

\* Record i is the only record of the snapshot with its block hash.
UniqueHash(i) ==
  \A k \in DOMAIN blocks : k # i => blocks[k].block_hash # blocks[i].block_hash

\* Records i and j differ in their block hash, record i lists the hash of
\* record j once and record j does not list the hash of record i.
ListsOnce(i, j) ==
  /\ blocks[i].block_hash # blocks[j].block_hash
  /\ Count(blocks[i].children, blocks[j].block_hash) = 1
  /\ Count(blocks[j].children, blocks[i].block_hash) = 0

\* Exactly one edge from the node of record i to that of record j and none
\* back, in the Digraph and in the DiGraph.
OneEdge(i, j) ==
  LET a == blocks[i].block_hash
      b == blocks[j].block_hash
  IN  /\ dot.status = "ok" =>
           /\ Count(dot.edges, Edge(a, b, "")) = 1
           /\ Count(dot.edges, Edge(b, a, "")) = 0
      /\ G.status = "ok" => (<<a, b>> \in G.edges /\ <<b, a>> \notin G.edges)

\* C6 as stated: for any two distinct records A and B, if A lists B once and
\* B does not list A, there is exactly one edge A -> B and no edge B -> A.
C6_OneEdgeParentToChild ==
  (dot.status = "ok" \/ G.status = "ok") =>
    \A i, j \in DOMAIN blocks : ListsOnce(i, j) => OneEdge(i, j)

\* C6 as amended: the same, for records A and B that are each the only record
\* of the snapshot with their block hash.
C6_OneEdgeWhenHashesUnique ==
  (dot.status = "ok" \/ G.status = "ok") =>
    \A i, j \in DOMAIN blocks :
      (ListsOnce(i, j) /\ UniqueHash(i) /\ UniqueHash(j)) => OneEdge(i, j)

\* Both visualizers have run on three records, two of which are the only ones
\* with their hash, the one listing the other once.
C6_Witness ==
  /\ dot.status = "ok"
  /\ G.status = "ok"
  /\ Len(blocks) = 3
  /\ \E i, j \in DOMAIN blocks : ListsOnce(i, j) /\ UniqueHash(i) /\ UniqueHash(j)

SameDifficulty == \A i, j \in DOMAIN blocks : blocks[i].difficulty = blocks[j].difficulty

\* C7: when all records have the same difficulty the ratio of every node is
\* zero and every real node is filled with the low colour #e8f0fe.
C7_DegenerateRangeLowColour ==
  (dot.status = "ok" /\ SameDifficulty) =>
    /\ \A i \in DOMAIN blocks :
         Ratio(blocks[i].difficulty,
               Min({blocks[k].difficulty : k \in DOMAIN blocks}),
               Max({blocks[k].difficulty : k \in DOMAIN blocks}))[1] = 0
    /\ \A i \in DOMAIN dot.nodes :
         dot.nodes[i].style = "filled" => dot.nodes[i].fillcolor = "#e8f0fe"

\* generate_graph has run on several records that all have difficulty 2.
C7_Witness ==
  /\ dot.status = "ok"
  /\ SameDifficulty
  /\ Len(blocks) >= 2
  /\ blocks[1].difficulty = 2

\* The index of the last record with block hash h.
LastIndex(h) == Max({i \in DOMAIN blocks : blocks[i].block_hash = h})

\* The last node statement of the Digraph for id h (the one Graphviz keeps).
GvEffectiveNode(h) ==
  dot.nodes[Max({i \in DOMAIN dot.nodes : dot.nodes[i].id = h})]

\* C8: of records that share a block hash only the last one shows: the node
\* has its label and colour, and the edges out of the node are those of its
\* children list.
C8_LastWins ==
  \A h \in Keys :
    LET last == blocks[LastIndex(h)]
        h2b == hash_to_block(blocks)
    IN  /\ dot.status = "ok" =>
             /\ GvEffectiveNode(h).label
                  = <<"#", short_hash(h), "\\nH:", last.height, "\\nD:", last.difficulty,
                      "\\nC:", last.no_difficulty_counter>>
             /\ SelectSeq(GvRealEdges, LAMBDA e : e.tail = h)
                  = [i \in 1..Len(SelectSeq(last.children, LAMBDA c : c \in Keys)) |->
                       Edge(h, SelectSeq(last.children, LAMBDA c : c \in Keys)[i], "")]
        /\ G.status = "ok" =>
             /\ G.nodes[h] = <<"H:", last.height, " D:", last.difficulty, " #", short_hash(h)>>
             /\ {e \in G.edges : e[1] = h}
                  = {<<h, last.children[i]>> :
                       i \in {k \in DOMAIN last.children : last.children[k] \in Keys}}

\* The edge statements that touch the padding node p.
TouchingEdges(p) == SelectSeq(dot.edges, LAMBDA e : e.tail = p \/ e.head = p)

\* C9: for a non-empty list there is one invisible padding_top node and one
\* invisible padding_bottom node; one invisible edge joins padding_top to the
\* first record's node, one joins padding_bottom to the last record's node,
\* and no other edge touches a padding node.
C9_PaddingAtFirstAndLast ==
  (blocks # <<>> /\ dot.status # "none") =>
    /\ dot.status = "ok"
    /\ SelectSeq(dot.nodes, LAMBDA n : n.id = padding_top)
         = <<PaddingNode(padding_top)>>
    /\ SelectSeq(dot.nodes, LAMBDA n : n.id = padding_bottom)
         = <<PaddingNode(padding_bottom)>>
    /\ PaddingNode(padding_top).style = "invis"
    /\ PaddingNode(padding_bottom).style = "invis"
    /\ TouchingEdges(padding_top) = <<Edge(padding_top, blocks[1].block_hash, "invis")>>
    /\ TouchingEdges(padding_bottom)
         = <<Edge(blocks[Len(blocks)].block_hash, padding_bottom, "invis")>>

\* generate_graph has run on a list whose first and last record differ in
\* their block hash.
C9_Witness ==
  /\ dot.status = "ok"
  /\ Len(blocks) >= 2
  /\ blocks[1].block_hash # blocks[Len(blocks)].block_hash

MinHeight == Min({blocks[i].height : i \in DOMAIN blocks})

MaxHeight == Max({blocks[i].height : i \in DOMAIN blocks})

\* padding_top is joined by an invisible edge to the node of a record of
\* minimum height and padding_bottom to that of a record of maximum height.
PaddingAtMinMax ==
  /\ \E i \in DOMAIN dot.edges : \E k \in DOMAIN blocks :
       /\ dot.edges[i] = Edge(padding_top, blocks[k].block_hash, "invis")
       /\ blocks[k].height = MinHeight
  /\ \E i \in DOMAIN dot.edges : \E k \in DOMAIN blocks :
       /\ dot.edges[i] = Edge(blocks[k].block_hash, padding_bottom, "invis")
       /\ blocks[k].height = MaxHeight

\* C10 as stated: for a non-empty list in any order the padding nodes are
\* joined to the nodes of minimum and of maximum height.
C10_PaddingAtMinMaxHeight ==
  (blocks # <<>> /\ dot.status = "ok") => PaddingAtMinMax

HeightOrdered ==
  \A i, j \in DOMAIN blocks : i < j => blocks[i].height <= blocks[j].height

\* C10 as amended: the padding nodes are joined to the nodes of the first and
\* of the last record, which are of minimum and of maximum height when the
\* list is in non-decreasing order of height.
C10_PaddingAtMinMaxWhenOrdered ==
  (blocks # <<>> /\ dot.status = "ok") =>
    /\ \E i \in DOMAIN dot.edges :
         dot.edges[i] = Edge(padding_top, blocks[1].block_hash, "invis")
    /\ \E i \in DOMAIN dot.edges :
         dot.edges[i] = Edge(blocks[Len(blocks)].block_hash, padding_bottom, "invis")
    /\ HeightOrdered =>
         /\ blocks[1].height = MinHeight
         /\ blocks[Len(blocks)].height = MaxHeight
         /\ PaddingAtMinMax

\* generate_graph has run on three records in non-decreasing order of height
\* whose first and last record differ in height and in block hash.
C10_Witness ==
  /\ dot.status = "ok"
  /\ HeightOrdered
  /\ Len(blocks) = 3
  /\ blocks[1].height < blocks[3].height
  /\ blocks[1].block_hash # blocks[3].block_hash

====
